---- MODULE Spec2Model ----
(***************************************************************************)
(* Durable Object orchestration core of AIDevOS                            *)
(* (src/src/orchestration/durable_objects.py, database.py).                *)
(*                                                                         *)
(* Python objects are modelled by two heaps: insts (BaseDurableObject      *)
(* instances) and dicts (the state dictionaries).  An instance and a       *)
(* stored record refer to a dictionary by address, so that two references  *)
(* to one dictionary (self.state handed to DurableObject(state=...)) are   *)
(* one heap cell, as in Python.  A dictionary is reduced to the value of   *)
(* its "count" key.                                                        *)
(*                                                                         *)
(* Coroutines: a call is run by a task.  InMemoryDataStore's coroutines    *)
(* contain no await of their own, so awaiting them never yields to the     *)
(* event loop; a task can only be suspended inside code supplied by a      *)
(* subclass: an initialize override that awaits before calling             *)
(* super().initialize(), and a handle_<action> method that awaits.         *)
(***************************************************************************)
EXTENDS Integers, FiniteSets, Sequences, TLC

\* ------------------------------------------------------------------ bounds
MaxTasks == 2
MaxIds == 2
MaxInst == 2
MaxDicts == 2
MaxCount == 1
MaxEvents == 2

Tasks == 1..MaxTasks
Ids == 1..MaxIds
InstAddr == 1..MaxInst
DictAddr == 1..MaxDicts
Events == 1..MaxEvents

\* ------------------------------------------------------------- vocabulary
\* class names used as registered type names (core_objects.py registers
\* every class under its own __name__)
TypeNames == {"Counter"}
\* a class whose initialize override raises (a resource it needs is gone)
BrittleTypes == {"Brittle"}
AllTypeNames == TypeNames \cup BrittleTypes
ValidStatuses == {"initializing", "active", "idle", "hibernating", "terminating"}
SeedStatuses == {"active", "idle", "hibernating"}
\* handle_increment and handle_fail exist on the class, handle_bogus does not
Actions == {"increment", "fail", "bogus"}
\* event types: "x" is the one that is published
EventTypes == {"x", "y"}
\* what an instance has registered for the event type: nothing, a handler that
\* runs to its end, a handler that raises, or a handler that awaits before it
\* ends
HandlerKinds == {"none", "record", "raise", "await"}

NoRec == [object_type |-> "none", state |-> 0, status |-> "none"]
NoInst == [object_id |-> 0, cls |-> "none", state |-> 0, status |-> "none"]
NoResult == [kind |-> "none", val |-> 0]
\* the updates argument of update_object: a dict that has the key "count"
\* (with value val) or has not
NoUpdate == [has |-> FALSE, val |-> 0]
Updates == {NoUpdate} \cup {[has |-> TRUE, val |-> v] : v \in 0..MaxCount}

IdleFrame == [op |-> "none", pc |-> "idle", id |-> 0, inst |-> 0, type |-> "none",
              event_type |-> "none", status |-> "none", listed |-> {},
              action |-> "none", updates |-> NoUpdate, item |-> NoRec, c |-> 0,
              woke |-> FALSE, result |-> NoResult]

NoFanout == [event |-> 0, size |-> 0, orig |-> {}, visited |-> {}, skipped |-> {}, cur |-> 0]

VARIABLES object_types, active_objects, store, insts, dicts, next_id, tasks,
          subscriptions, event_handlers, inbox, next_event, fanout

busVars == <<subscriptions, event_handlers, inbox, next_event, fanout>>

vars == <<object_types, active_objects, store, insts, dicts, next_id, tasks,
          subscriptions, event_handlers, inbox, next_event, fanout>>

\* the mutable object graph, threaded through the method bodies below
Heap == [i |-> insts, d |-> dicts, s |-> store, c |-> active_objects]

\* ------------------------------------------------------ InMemoryDataStore
StoreRead(s, id) == s[id]

StoreUpdateUpsert(s, id, item) == [s EXCEPT ![id] = item]

StoreUpdate(s, id, item) == IF s[id] # NoRec THEN [s EXCEPT ![id] = item] ELSE s

StoreCreateItem(s, id, item) == [s EXCEPT ![id] = item]

StoreDelete(s, id) == [s EXCEPT ![id] = NoRec]

\* ------------------------------------------------------ BaseDurableObject
FreeInst(H) == CHOOSE a \in InstAddr : H.i[a] = NoInst /\ \A b \in InstAddr : b < a => H.i[b] # NoInst
FreeDict(H) == CHOOSE a \in DictAddr : H.d[a] = -1 /\ \A b \in DictAddr : b < a => H.d[b] # -1
HasFreeInst(H) == \E a \in InstAddr : H.i[a] = NoInst
HasFreeDict(H) == \E a \in DictAddr : H.d[a] = -1

\* __init__: a new instance in status "initializing" holding the dict it is given
Construct(H, a, id, cls, st) ==
    [H EXCEPT !.i[a] = [object_id |-> id, cls |-> cls, state |-> st, status |-> "initializing"]]

StatusSetter(H, a, value) ==
    IF value \in ValidStatuses THEN [H EXCEPT !.i[a].status = value] ELSE H

\* _save_state: a new record that shares self.state, handed to store.update
SaveState(H, a) ==
    LET o == H.i[a]
        rec == [object_type |-> o.cls, state |-> o.state, status |-> o.status]
    IN [H EXCEPT !.s = StoreUpdate(H.s, o.object_id, rec)]

\* _load_state: adopt the stored record's state dict and status (the first
\* definition is the variant that adopts the state dict only)
LoadStateKeepsStatus(H, a) ==
    LET rec == StoreRead(H.s, H.i[a].object_id)
    IN IF rec # NoRec THEN [H EXCEPT !.i[a].state = rec.state] ELSE H

LoadState(H, a) ==
    LET rec == StoreRead(H.s, H.i[a].object_id)
    IN IF rec # NoRec
       THEN [H EXCEPT !.i[a].state = rec.state, !.i[a].status = rec.status]
       ELSE H

BaseInitializeNoStatus(H, a) == SaveState(H, a)

BaseInitialize(H, a) == SaveState(StatusSetter(H, a, "active"), a)

BaseHibernate(H, a) == SaveState(StatusSetter(H, a, "hibernating"), a)

BaseTerminate(H, a) == SaveState(StatusSetter(H, a, "terminating"), a)

\* type_name in self._object_types (a dict from type name to class; "none"
\* stands for a key that is absent); the first definition is the variant
\* that takes every name for registered
KnownTypeAny(name) == TRUE

KnownType(name) == name \in AllTypeNames /\ object_types[name] # "none"

\* the initialize override of class cls raises
HookRaises(cls) == cls \in BrittleTypes

\* process_request, line 107 and line 109
NeedsWakeNever(status) == FALSE

NeedsWake(status) == status = "hibernating"

RejectsRequestLax(status) == status \notin {"active", "terminating"}

RejectsRequest(status) == status # "active"

\* the handle_* methods the class defines
Methods == {"handle_increment", "handle_fail"}

\* method_name = f"handle_{action}" (line 114)
MethodName(action) == "handle_" \o action

\* hasattr(self, method_name) (line 115)
HasHandler(action) == MethodName(action) \in Methods

Count(H, a) == H.d[H.i[a].state]

\* self.state["count"] = v : an in-place write to the dict self.state refers to
WriteCount(H, a, v) == [H EXCEPT !.d[H.i[a].state] = v]

\* an instance some caller can hold: it has been returned by create/get
UnderConstruction(a) ==
    \E t \in Tasks : tasks[t].pc \in {"create_init", "get_init", "del_init"}
                      /\ tasks[t].inst = a
Exposed(a) == insts[a] # NoInst /\ ~UnderConstruction(a)

\* a new call runs in the first task that is free
CanStart(t) == tasks[t].pc = "idle" /\ \A u \in Tasks : u < t => tasks[u].pc # "idle"

SetHeap(H) ==
    /\ insts' = H.i
    /\ dicts' = H.d
    /\ store' = H.s
    /\ active_objects' = H.c

Done(t, f, kind, val) ==
    tasks' = [tasks EXCEPT ![t] = [f EXCEPT !.pc = "done", !.result = [kind |-> kind, val |-> val]]]

Suspend(t, f, pc) == tasks' = [tasks EXCEPT ![t] = [f EXCEPT !.pc = pc]]

\* ------------------------------------------------------------------- Init
Init ==
    /\ object_types = [n \in AllTypeNames |-> "none"]
    /\ active_objects = [id \in Ids |-> 0]
    /\ store = [id \in Ids |-> NoRec]
    /\ insts = [a \in InstAddr |-> NoInst]
    /\ dicts = [a \in DictAddr |-> -1]
    /\ next_id = 0
    /\ tasks = [t \in Tasks |-> IdleFrame]
    /\ subscriptions = [e \in EventTypes |-> {}]
    /\ event_handlers = [a \in InstAddr |-> "none"]
    /\ inbox = [id \in Ids |-> <<>>]
    /\ next_event = 0
    /\ fanout = [t \in Tasks |-> NoFanout]

\* ---------------------------------------------------------------- actions
\* DurableObjectRegistry.register_object_type
RegisterObjectType(name) ==
    /\ object_types' = [object_types EXCEPT ![name] = name]
    /\ UNCHANGED <<active_objects, store, insts, dicts, next_id, tasks>>
    /\ UNCHANGED busVars

\* importing core_objects registers every class of the module
RegisterCoreObjects ==
    /\ object_types # [n \in AllTypeNames |-> n]
    /\ object_types' = [n \in AllTypeNames |-> n]
    /\ UNCHANGED <<active_objects, store, insts, dicts, next_id, tasks>>
    /\ UNCHANGED busVars

\* durable_object_store.create(record) by code outside the registry: the
\* record carries a dict of its own.  The id is a new one, or the id of a live
\* object create_object returned (ids are uuids: the id of a deleted object is
\* not used again).
StoreCreate(id, type, status) ==
    /\ id = next_id + 1 \/ (id <= next_id /\ active_objects[id] # 0)
    /\ store[id] = NoRec
    /\ \A t \in Tasks : ~(tasks[t].pc = "create_init" /\ tasks[t].id = id)
    /\ HasFreeDict(Heap)
    /\ LET d == FreeDict(Heap)
       IN /\ dicts' = [dicts EXCEPT ![d] = 0]
          /\ store' = StoreCreateItem(store, id, [object_type |-> type, state |-> d, status |-> status])
    /\ next_id' = IF id > next_id THEN id ELSE next_id
    /\ UNCHANGED <<object_types, active_objects, insts, tasks>>
    /\ UNCHANGED busVars

\* the caller takes the value the awaited call returned
Collect(t) ==
    /\ tasks[t].pc = "done"
    /\ tasks' = [tasks EXCEPT ![t] = IdleFrame]
    /\ fanout' = [fanout EXCEPT ![t] = NoFanout]
    /\ UNCHANGED <<object_types, active_objects, store, insts, dicts, next_id>>
    /\ UNCHANGED <<subscriptions, event_handlers, inbox, next_event>>

\* DurableObjectRegistry.create_object; suspend: the class's initialize
\* override awaits before it calls super().initialize().  An initialize that
\* raises (line 289) leaves create_object with the instance built, not cached.
CreateObject(t, type, suspend) ==
    /\ CanStart(t)
    /\ LET f == [IdleFrame EXCEPT !.op = "create_object", !.type = type]
       IN IF ~KnownType(type)
          THEN /\ Done(t, f, "UnknownType", 0)
               /\ UNCHANGED <<object_types, active_objects, store, insts, dicts, next_id>>
          ELSE /\ next_id < MaxIds
               /\ HasFreeInst(Heap)
               /\ HasFreeDict(Heap)
               /\ LET id == next_id + 1
                      d == FreeDict(Heap)
                      a == FreeInst(Heap)
                      H1 == Construct([Heap EXCEPT !.d[d] = 0], a, id, object_types[type], d)
                      g == [f EXCEPT !.id = id, !.inst = a]
                  IN /\ next_id' = id
                     /\ IF HookRaises(object_types[type])
                        THEN /\ SetHeap(H1)
                             /\ Done(t, g, "Exception", 0)
                        ELSE IF suspend
                        THEN /\ SetHeap(H1)
                             /\ Suspend(t, g, "create_init")
                        ELSE /\ SetHeap([BaseInitialize(H1, a) EXCEPT !.c[id] = a])
                             /\ Done(t, g, "id", id)
               /\ UNCHANGED object_types
    /\ UNCHANGED busVars

CreateResume(t) ==
    /\ tasks[t].pc = "create_init"
    /\ LET f == tasks[t]
       IN /\ SetHeap([BaseInitialize(Heap, f.inst) EXCEPT !.c[f.id] = f.inst])
          /\ Done(t, f, "id", f.id)
    /\ UNCHANGED <<object_types, next_id>>
    /\ UNCHANGED busVars

\* DurableObjectRegistry.get_object
GetObject(t, id, suspend) ==
    /\ CanStart(t)
    /\ LET f == [IdleFrame EXCEPT !.op = "get_object", !.id = id]
           rec == StoreRead(store, id)
       IN IF active_objects[id] # 0
          THEN /\ Done(t, [f EXCEPT !.inst = active_objects[id]], "instance", active_objects[id])
               /\ UNCHANGED <<active_objects, store, insts, dicts>>
          ELSE IF rec = NoRec \/ ~KnownType(rec.object_type)
          THEN /\ Done(t, f, "None", 0)
               /\ UNCHANGED <<active_objects, store, insts, dicts>>
          ELSE /\ HasFreeInst(Heap)
               /\ LET a == FreeInst(Heap)
                      H1 == LoadState(Construct(Heap, a, id, object_types[rec.object_type], rec.state), a)
                      g == [f EXCEPT !.inst = a]
                  IN IF H1.i[a].status = "hibernating"
                     THEN IF suspend
                          THEN /\ SetHeap(H1)
                               /\ Suspend(t, g, "get_init")
                          ELSE /\ SetHeap([BaseInitialize(H1, a) EXCEPT !.c[id] = a])
                               /\ Done(t, g, "instance", a)
                     ELSE /\ SetHeap([H1 EXCEPT !.c[id] = a])
                          /\ Done(t, g, "instance", a)
    /\ UNCHANGED <<object_types, next_id>>
    /\ UNCHANGED busVars

GetResume(t) ==
    /\ tasks[t].pc = "get_init"
    /\ LET f == tasks[t]
       IN /\ SetHeap([BaseInitialize(Heap, f.inst) EXCEPT !.c[f.id] = f.inst])
          /\ Done(t, f, "instance", f.inst)
    /\ UNCHANGED <<object_types, next_id>>
    /\ UNCHANGED busVars

\* process_request from the dispatch on (lines 112-124), on heap H.
\* handle_increment: c = self.state["count"]; (await); self.state["count"] = c + 1
\* handle_fail: writes self.state in place, then raises
Dispatch(t, f, H, suspend) ==
    LET a == f.inst
    IN IF ~HasHandler(f.action)
       THEN /\ SetHeap(H)
            /\ Done(t, f, "UnknownAction", 0)
       ELSE IF f.action = "fail"
       THEN /\ SetHeap(WriteCount(H, a, Count(H, a) + 1))
            /\ Done(t, f, "HandlerError", 0)
       ELSE IF suspend
       THEN /\ SetHeap(H)
            /\ Suspend(t, [f EXCEPT !.c = Count(H, a)], "pr_handler")
       ELSE /\ SetHeap(SaveState(WriteCount(H, a, Count(H, a) + 1), a))
            /\ Done(t, f, "ok", Count(H, a) + 1)

\* process_request (lines 104-124) run by task t with frame f on instance
\* f.inst, on heap H; an exception of initialize at line 108 is outside the
\* try and leaves process_request
RequestOn(t, f, H, suspendInit, suspendHandler) ==
    LET a == f.inst
        g == [f EXCEPT !.woke = TRUE]
    IN IF NeedsWake(H.i[a].status)
       THEN IF HookRaises(H.i[a].cls)
            THEN /\ SetHeap(H)
                 /\ Done(t, g, "Exception", 0)
            ELSE IF suspendInit
            THEN /\ SetHeap(H)
                 /\ Suspend(t, g, "pr_init")
            ELSE Dispatch(t, g, BaseInitialize(H, a), suspendHandler)
       ELSE IF RejectsRequest(H.i[a].status)
       THEN /\ SetHeap(H)
            /\ Done(t, f, "InvalidState", 0)
       ELSE Dispatch(t, f, H, suspendHandler)

\* BaseDurableObject.process_request on an instance a caller holds
ProcessRequest(t, a, action, suspendInit, suspendHandler) ==
    /\ CanStart(t)
    /\ Exposed(a)
    /\ Count(Heap, a) < MaxCount
    /\ RequestOn(t, [IdleFrame EXCEPT !.op = "process_request", !.id = insts[a].object_id,
                                      !.inst = a, !.action = action],
                 Heap, suspendInit, suspendHandler)
    /\ UNCHANGED <<object_types, next_id>>
    /\ UNCHANGED busVars

PRInitResume(t, suspendHandler) ==
    /\ tasks[t].pc = "pr_init"
    /\ Dispatch(t, tasks[t], BaseInitialize(Heap, tasks[t].inst), suspendHandler)
    /\ UNCHANGED <<object_types, next_id>>
    /\ UNCHANGED busVars

PRHandlerResume(t) ==
    /\ tasks[t].pc = "pr_handler"
    /\ LET f == tasks[t]
       IN /\ SetHeap(SaveState(WriteCount(Heap, f.inst, f.c + 1), f.inst))
          /\ Done(t, f, "ok", f.c + 1)
    /\ UNCHANGED <<object_types, next_id>>
    /\ UNCHANGED busVars

\* direct calls of obj.initialize(), obj.hibernate() and obj.terminate() on an
\* instance a caller holds
Initialize(a) ==
    /\ Exposed(a)
    /\ SetHeap(BaseInitialize(Heap, a))
    /\ UNCHANGED <<object_types, next_id, tasks>>
    /\ UNCHANGED busVars

Hibernate(a) ==
    /\ Exposed(a)
    /\ SetHeap(BaseHibernate(Heap, a))
    /\ UNCHANGED <<object_types, next_id, tasks>>
    /\ UNCHANGED busVars

Terminate(a) ==
    /\ Exposed(a)
    /\ SetHeap(BaseTerminate(Heap, a))
    /\ UNCHANGED <<object_types, next_id, tasks>>
    /\ UNCHANGED busVars

\* get_object as the other registry calls use it, on heap H: the cached
\* instance ("hit"), no object ("none"), an instance hydrated from the stored
\* record and cached ("fresh"), one hydrated in status hibernating whose
\* initialize is still to run before it is cached ("wake"), or one hydrated
\* in status hibernating whose initialize raises, so that get_object raises
\* at line 336 and the instance is not cached ("raise")
Resolve(H, id) ==
    LET rec == StoreRead(H.s, id)
        a == FreeInst(H)
        H1 == LoadState(Construct(H, a, id, object_types[rec.object_type], rec.state), a)
    IN IF H.c[id] # 0 THEN [kind |-> "hit", inst |-> H.c[id], H |-> H]
       ELSE IF rec = NoRec \/ ~KnownType(rec.object_type)
       THEN [kind |-> "none", inst |-> 0, H |-> H]
       ELSE IF ~HasFreeInst(H) THEN [kind |-> "full", inst |-> 0, H |-> H]
       ELSE IF H1.i[a].status = "hibernating" /\ HookRaises(H1.i[a].cls)
       THEN [kind |-> "raise", inst |-> a, H |-> H1]
       ELSE IF H1.i[a].status = "hibernating" THEN [kind |-> "wake", inst |-> a, H |-> H1]
       ELSE [kind |-> "fresh", inst |-> a, H |-> [H1 EXCEPT !.c[id] = a]]

\* get_object lines 336-339: initialize the woken instance and cache it
FinishWake(H, a, id) == [BaseInitialize(H, a) EXCEPT !.c[id] = a]

\* delete_object lines 382-393 once get_object has returned instance a
DeleteTail(H, a, id) ==
    LET H1 == BaseTerminate(H, a)
        H2 == [H1 EXCEPT !.c[id] = 0]
    IN [H2 EXCEPT !.s = StoreDelete(H2.s, id)]

\* DurableObjectRegistry.delete_object
DeleteObject(t, id, suspend) ==
    /\ CanStart(t)
    /\ LET f == [IdleFrame EXCEPT !.op = "delete_object", !.id = id]
           r == Resolve(Heap, id)
           g == [f EXCEPT !.inst = r.inst]
       IN /\ r.kind # "full"
          /\ IF r.kind = "none"
             THEN /\ Done(t, f, "False", 0)
                  /\ UNCHANGED <<active_objects, store, insts, dicts>>
             ELSE IF r.kind = "raise"
             THEN /\ SetHeap(r.H)
                  /\ Done(t, g, "Exception", 0)
             ELSE IF r.kind = "wake" /\ suspend
             THEN /\ SetHeap(r.H)
                  /\ Suspend(t, g, "del_init")
             ELSE IF r.kind = "wake"
             THEN /\ SetHeap(DeleteTail(FinishWake(r.H, r.inst, id), r.inst, id))
                  /\ Done(t, g, "True", 0)
             ELSE /\ SetHeap(DeleteTail(r.H, r.inst, id))
                  /\ Done(t, g, "True", 0)
    /\ UNCHANGED <<object_types, next_id>>
    /\ UNCHANGED busVars

DeleteResume(t) ==
    /\ tasks[t].pc = "del_init"
    /\ LET f == tasks[t]
       IN /\ SetHeap(DeleteTail(FinishWake(Heap, f.inst, f.id), f.inst, f.id))
          /\ Done(t, f, "True", 0)
    /\ UNCHANGED <<object_types, next_id>>
    /\ UNCHANGED busVars

\* --------------------------------------- InMemoryDataStore, called directly
\* the records a caller of the store hands to it
Items == {[object_type |-> ty, state |-> d, status |-> st] :
             ty \in TypeNames, d \in DictAddr, st \in SeedStatuses}

\* the caller has built the record's state dict
WithDict(d) == IF dicts[d] = -1 THEN [dicts EXCEPT ![d] = 0] ELSE dicts

\* await durable_object_store.create(item), item.id = id
DsCreate(t, id, item) ==
    /\ CanStart(t)
    /\ dicts' = WithDict(item.state)
    /\ store' = StoreCreateItem(store, id, item)
    /\ Done(t, [IdleFrame EXCEPT !.op = "store.create", !.id = id, !.item = item], "item", 0)
    /\ UNCHANGED <<object_types, active_objects, insts, next_id>>
    /\ UNCHANGED busVars

\* await durable_object_store.read(id)
DsRead(t, id) ==
    /\ CanStart(t)
    /\ LET f == [IdleFrame EXCEPT !.op = "store.read", !.id = id, !.item = StoreRead(store, id)]
       IN Done(t, f, IF StoreRead(store, id) = NoRec THEN "None" ELSE "item", 0)
    /\ UNCHANGED <<object_types, active_objects, store, insts, dicts, next_id>>
    /\ UNCHANGED busVars

\* await durable_object_store.update(id, item)
DsUpdate(t, id, item) ==
    /\ CanStart(t)
    /\ dicts' = WithDict(item.state)
    /\ store' = StoreUpdate(store, id, item)
    /\ Done(t, [IdleFrame EXCEPT !.op = "store.update", !.id = id, !.item = item],
            IF store[id] # NoRec THEN "item" ELSE "None", 0)
    /\ UNCHANGED <<object_types, active_objects, insts, next_id>>
    /\ UNCHANGED busVars

\* await durable_object_store.delete(id)
DsDelete(t, id) ==
    /\ CanStart(t)
    /\ store' = StoreDelete(store, id)
    /\ Done(t, [IdleFrame EXCEPT !.op = "store.delete", !.id = id],
            IF store[id] # NoRec THEN "True" ELSE "False", 0)
    /\ UNCHANGED <<object_types, active_objects, insts, dicts, next_id>>
    /\ UNCHANGED busVars

\* ------------------------------------------------- registry maintenance
\* register_object_type(name, object_class): a plain assignment to the dict
RegisterAs(name, cls) ==
    /\ object_types' = [object_types EXCEPT ![name] = cls]
    /\ UNCHANGED <<active_objects, store, insts, dicts, next_id, tasks>>
    /\ UNCHANGED busVars

\* dict.update(updates) on a dict whose "count" is v
Merge(v, updates) == IF updates.has THEN updates.val ELSE v

\* DurableObjectRegistry.update_object(object_id, updates)
UpdateObject(t, id, updates) ==
    /\ CanStart(t)
    /\ LET f == [IdleFrame EXCEPT !.op = "update_object", !.id = id, !.updates = updates]
           r == Resolve(Heap, id)
           a == r.inst
           g == [f EXCEPT !.inst = a]
           H1 == IF r.kind = "wake" THEN FinishWake(r.H, a, id) ELSE r.H
       IN /\ r.kind # "full"
          /\ IF r.kind = "none"
             THEN /\ Done(t, f, "None", 0)
                  /\ UNCHANGED <<active_objects, store, insts, dicts>>
             ELSE IF r.kind = "raise"
             THEN /\ SetHeap(r.H)
                  /\ Done(t, g, "Exception", 0)
             ELSE /\ SetHeap(SaveState(WriteCount(H1, a, Merge(Count(H1, a), updates)), a))
                  /\ Done(t, g, "instance", a)
    /\ UNCHANGED <<object_types, next_id>>
    /\ UNCHANGED busVars

MatchesTypeOnly(rec, ty, st) == rec # NoRec /\ (ty = "none" \/ rec.object_type = ty)

\* filter_func of list_objects (lines 413-420) on a stored record; "none" is
\* a filter that was not given
Matches(rec, ty, st) ==
    /\ rec # NoRec
    /\ ty = "none" \/ rec.object_type = ty
    /\ st = "none" \/ rec.status = st

\* DurableObjectRegistry.list_objects(object_type=ty, status=st): the ids of
\* the metadata entries it returns
ListObjects(t, ty, st) ==
    /\ CanStart(t)
    /\ LET f == [IdleFrame EXCEPT !.op = "list_objects", !.type = ty, !.status = st,
                                  !.listed = {id \in Ids : Matches(StoreRead(store, id), ty, st)}]
       IN Done(t, f, "list", 0)
    /\ UNCHANGED <<object_types, active_objects, store, insts, dicts, next_id>>
    /\ UNCHANGED busVars

\* ------------------------------------------------- orchestration layer
\* the type of system object the layer keeps (the code has four blocks of the
\* same form, one per core class; one block is modelled)
SystemType == "Counter"

\* initialize_orchestration_layer: list the stored objects of the system
\* type; create one when the list is empty.  No core class suspends in
\* create_object, so that a call is one step.
InitializeOrchestrationLayer(t) ==
    /\ CanStart(t)
    /\ LET f == [IdleFrame EXCEPT !.op = "initialize_orchestration_layer", !.type = SystemType,
                                  !.listed = {id \in Ids : Matches(StoreRead(store, id), SystemType, "none")}]
       IN IF f.listed # {}
          THEN /\ Done(t, f, "None", 0)
               /\ UNCHANGED <<active_objects, store, insts, dicts, next_id>>
          ELSE IF ~KnownType(SystemType)
          THEN /\ Done(t, f, "UnknownType", 0)
               /\ UNCHANGED <<active_objects, store, insts, dicts, next_id>>
          ELSE /\ next_id < MaxIds
               /\ HasFreeInst(Heap)
               /\ HasFreeDict(Heap)
               /\ LET id == next_id + 1
                      d == FreeDict(Heap)
                      a == FreeInst(Heap)
                      H1 == Construct([Heap EXCEPT !.d[d] = 0], a, id, object_types[SystemType], d)
                  IN /\ next_id' = id
                     /\ SetHeap([BaseInitialize(H1, a) EXCEPT !.c[id] = a])
                     /\ Done(t, [f EXCEPT !.id = id, !.inst = a], "None", 0)
    /\ UNCHANGED object_types
    /\ UNCHANGED busVars

\* ----------------------------------------------------------------- Router
\* DurableObjectRouter.route_request(object_id, action, data, metadata)
RouteRequest(t, id, action, suspendHandler) ==
    /\ CanStart(t)
    /\ LET f == [IdleFrame EXCEPT !.op = "route_request", !.id = id, !.action = action]
           r == Resolve(Heap, id)
           g == [f EXCEPT !.inst = r.inst]
           H1 == IF r.kind = "wake" THEN FinishWake(r.H, r.inst, id) ELSE r.H
       IN /\ r.kind # "full"
          /\ IF r.kind = "none"
             THEN /\ Done(t, f, "NotFound", 0)
                  /\ UNCHANGED <<active_objects, store, insts, dicts>>
             ELSE IF r.kind = "raise"
             THEN /\ SetHeap(r.H)
                  /\ Done(t, g, "Exception", 0)
             ELSE /\ Count(H1, r.inst) < MaxCount
                  /\ RequestOn(t, g, H1, FALSE, suspendHandler)
    /\ UNCHANGED <<object_types, next_id>>
    /\ UNCHANGED busVars

\* -------------------------------------------------------------- API layer
\* the action name a router of api_service passes to send_request_to_object
\* for the handler method handle_increment (AuthRouter.login passes
\* "handle_login" for handle_login)
ApiAction == "handle_increment"

\* send_request_to_object(id, ApiAction, data) from the router, on heap H:
\* route_request, then process_request of the instance
LoginSend(t, H, id) ==
    LET f == [IdleFrame EXCEPT !.op = "login", !.type = SystemType, !.id = id,
                               !.action = ApiAction]
        r == Resolve(H, id)
        g == [f EXCEPT !.inst = r.inst]
        H1 == IF r.kind = "wake" THEN FinishWake(r.H, r.inst, id) ELSE r.H
    IN /\ r.kind # "full"
       /\ IF r.kind = "none"
          THEN /\ SetHeap(H)
               /\ Done(t, f, "NotFound", 0)
          ELSE IF r.kind = "raise"
          THEN /\ SetHeap(r.H)
               /\ Done(t, g, "Exception", 0)
          ELSE /\ Count(H1, r.inst) < MaxCount
               /\ RequestOn(t, g, H1, FALSE, FALSE)

\* AuthRouter.login (the other routers have the same form): take the first
\* stored object of the type, or create one, and send it the request
Login(t) ==
    /\ CanStart(t)
    /\ LET found == {id \in Ids : Matches(StoreRead(store, id), SystemType, "none")}
       IN IF found # {}
          THEN /\ \E id \in found : LoginSend(t, Heap, id)
               /\ UNCHANGED next_id
          ELSE IF ~KnownType(SystemType)
          THEN /\ Done(t, [IdleFrame EXCEPT !.op = "login", !.type = SystemType], "UnknownType", 0)
               /\ UNCHANGED <<active_objects, store, insts, dicts, next_id>>
          ELSE /\ next_id < MaxIds
               /\ HasFreeInst(Heap)
               /\ HasFreeDict(Heap)
               /\ LET id == next_id + 1
                      d == FreeDict(Heap)
                      a == FreeInst(Heap)
                      H1 == Construct([Heap EXCEPT !.d[d] = 0], a, id, object_types[SystemType], d)
                  IN /\ next_id' = id
                     /\ LoginSend(t, [BaseInitialize(H1, a) EXCEPT !.c[id] = a], id)
    /\ UNCHANGED object_types
    /\ UNCHANGED busVars

\* --------------------------------------------------------------- EventBus
\* instance.register_event_handler("x", handler): the handler is appended to
\* the instance's own table; the EventBus is not told (subscribe_to_event
\* only records the type on the instance)
RegisterEventHandler(a, kind) ==
    /\ Exposed(a)
    /\ event_handlers[a] = "none"
    /\ kind # "none"
    /\ event_handlers' = [event_handlers EXCEPT ![a] = kind]
    /\ UNCHANGED <<object_types, active_objects, store, insts, dicts, next_id, tasks>>
    /\ UNCHANGED <<subscriptions, inbox, next_event, fanout>>

\* EventBus.subscribe(object_id, "x")
Subscribe(id) ==
    /\ subscriptions' = [subscriptions EXCEPT !["x"] = @ \cup {id}]
    /\ UNCHANGED <<object_types, active_objects, store, insts, dicts, next_id, tasks>>
    /\ UNCHANGED <<event_handlers, inbox, next_event, fanout>>

\* EventBus.unsubscribe(object_id, "x")
Unsubscribe(id) ==
    /\ subscriptions' = [subscriptions EXCEPT !["x"] = @ \ {id}]
    /\ UNCHANGED <<object_types, active_objects, store, insts, dicts, next_id, tasks>>
    /\ UNCHANGED <<event_handlers, inbox, next_event, fanout>>

\* handle_event on an instance whose handler is of this kind: an exception of
\* the handler is caught at line 208, an awaiting handler suspends the caller
HandleEvent(kind) == IF kind = "await" THEN "suspend" ELSE "return"

CaughtInLoopNever(exc) == FALSE

\* publish, line 539: except Exception inside the loop body
CaughtInLoop(exc) == exc = "Exception"

\* The loop of publish (lines 533-540) from a call of the set iterator's
\* next() up to the first suspension or the end of publish: the set of ways
\* it can go.  The iterator is over the live set subscriptions["x"]: next()
\* raises RuntimeError if the set's size is not the size it had when the loop
\* began; otherwise it yields an element not yet visited.  The elements the
\* set had when the loop began keep their slots, so every loop over them goes
\* in one order (hash order, taken here as the order of the ids); an element
\* added after the loop began is visited at some point or not at all,
\* depending on the slot it fell in.  ib is the delivery log, fo the loop's
\* own state.
RECURSIVE FanRun(_, _, _), FanVisit(_, _, _, _)
FanRun(H, ib, fo) ==
    LET S == subscriptions["x"]
        cand == S \ fo.visited
        old == cand \cap fo.orig
        first == {id \in old : \A o \in old : id <= o}
    IN IF Cardinality(S) # fo.size
       THEN {[H |-> H, ib |-> ib, fo |-> fo, end |-> "RuntimeError"]}
       ELSE (IF old = {}
             THEN {[H |-> H, ib |-> ib, fo |-> [fo EXCEPT !.cur = 0], end |-> "return"]}
             ELSE {})
            \cup UNION {FanVisit(H, ib, fo, id) : id \in first \cup (cand \ fo.orig)}

\* one pass of the loop body for subscriber id
FanVisit(H, ib, fo, id) ==
    LET r == Resolve(H, id)
        fo1 == [fo EXCEPT !.visited = @ \cup {id}, !.cur = id]
        fo2 == [fo1 EXCEPT !.skipped = @ \cup {id}]
        H1 == IF r.kind = "wake" THEN FinishWake(r.H, r.inst, id) ELSE r.H
        ib1 == [ib EXCEPT ![id] = Append(@, fo.event)]
    IN CASE r.kind = "full" -> {}
         [] r.kind = "none" -> FanRun(H, ib, fo2)
         [] r.kind = "raise" ->
              IF CaughtInLoop("Exception") THEN FanRun(r.H, ib, fo2)
              ELSE {[H |-> r.H, ib |-> ib, fo |-> fo2, end |-> "Exception"]}
         [] OTHER ->
              IF HandleEvent(event_handlers[r.inst]) = "suspend"
              THEN {[H |-> H1, ib |-> ib1, fo |-> fo1, end |-> "suspend"]}
              ELSE FanRun(H1, ib1, fo1)

\* task t's frame f after a run of the loop that went the way o
FanApply(t, f, o) ==
    /\ SetHeap(o.H)
    /\ inbox' = o.ib
    /\ fanout' = [fanout EXCEPT ![t] = o.fo]
    /\ IF o.end = "suspend"
       THEN Suspend(t, [f EXCEPT !.id = o.fo.cur, !.inst = o.H.c[o.fo.cur]], "pub_handler")
       ELSE Done(t, f, IF o.end = "return" THEN "None" ELSE o.end, 0)

\* EventBus.publish("x", event): events are numbered in publish order
Publish(t) ==
    /\ CanStart(t)
    /\ next_event < MaxEvents
    /\ LET e == next_event + 1
           S == subscriptions["x"]
           f == [IdleFrame EXCEPT !.op = "publish"]
           fo == [NoFanout EXCEPT !.event = e, !.size = Cardinality(S), !.orig = S]
       IN /\ next_event' = e
          /\ \E o \in FanRun(Heap, inbox, fo) : FanApply(t, f, o)
    /\ UNCHANGED <<object_types, next_id, subscriptions, event_handlers>>

\* the awaiting handler ends; the loop of publish goes on
PublishResume(t) ==
    /\ tasks[t].pc = "pub_handler"
    /\ \E o \in FanRun(Heap, inbox, fanout[t]) : FanApply(t, tasks[t], o)
    /\ UNCHANGED <<object_types, next_id, subscriptions, event_handlers, next_event>>

\* ------------------------------------------- EventBus subscription table
SubAdd(tbl, id, e) == [tbl EXCEPT ![e] = @ \cup {id}]

SubRemoveEverywhere(tbl, id, e) == [x \in EventTypes |-> tbl[x] \ {id}]

SubRemove(tbl, id, e) == [tbl EXCEPT ![e] = @ \ {id}]

SubRemoveAll(tbl, id) == [x \in EventTypes |-> tbl[x] \ {id}]

\* a caller's EventBus.subscribe(object_id, event_type)
SubscribeTo(t, id, e) ==
    /\ CanStart(t)
    /\ subscriptions' = SubAdd(subscriptions, id, e)
    /\ Done(t, [IdleFrame EXCEPT !.op = "subscribe", !.id = id, !.event_type = e], "None", 0)
    /\ UNCHANGED <<object_types, active_objects, store, insts, dicts, next_id>>
    /\ UNCHANGED <<event_handlers, inbox, next_event, fanout>>

\* a caller's EventBus.unsubscribe(object_id, event_type)
UnsubscribeFrom(t, id, e) ==
    /\ CanStart(t)
    /\ subscriptions' = SubRemove(subscriptions, id, e)
    /\ Done(t, [IdleFrame EXCEPT !.op = "unsubscribe", !.id = id, !.event_type = e], "None", 0)
    /\ UNCHANGED <<object_types, active_objects, store, insts, dicts, next_id>>
    /\ UNCHANGED <<event_handlers, inbox, next_event, fanout>>

\* a caller's EventBus.unsubscribe(object_id), no event type given
UnsubscribeAll(t, id) ==
    /\ CanStart(t)
    /\ subscriptions' = SubRemoveAll(subscriptions, id)
    /\ Done(t, [IdleFrame EXCEPT !.op = "unsubscribe", !.id = id], "None", 0)
    /\ UNCHANGED <<object_types, active_objects, store, insts, dicts, next_id>>
    /\ UNCHANGED <<event_handlers, inbox, next_event, fanout>>

Next ==
    \/ \E n \in TypeNames : RegisterObjectType(n)
    \/ \E id \in Ids, ty \in TypeNames, st \in SeedStatuses : StoreCreate(id, ty, st)
    \/ \E t \in Tasks : Collect(t)
    \/ \E t \in Tasks, ty \in TypeNames, s \in BOOLEAN : CreateObject(t, ty, s)
    \/ \E t \in Tasks : CreateResume(t)
    \/ \E t \in Tasks, id \in Ids, s \in BOOLEAN : GetObject(t, id, s)
    \/ \E t \in Tasks : GetResume(t)
    \/ \E t \in Tasks, a \in InstAddr, act \in Actions, s1 \in BOOLEAN, s2 \in BOOLEAN :
          ProcessRequest(t, a, act, s1, s2)
    \/ \E t \in Tasks, s \in BOOLEAN : PRInitResume(t, s)
    \/ \E t \in Tasks : PRHandlerResume(t)
    \/ \E a \in InstAddr : Initialize(a)
    \/ \E a \in InstAddr : Hibernate(a)
    \/ \E a \in InstAddr : Terminate(a)

Spec == Init /\ [][Next]_vars

\* the registry with delete_object: objects are created, seeded, hydrated,
\* sent increment requests, hibernated and deleted
NextDel ==
    \/ \E n \in TypeNames : RegisterObjectType(n)
    \/ \E id \in Ids, ty \in TypeNames, st \in SeedStatuses : StoreCreate(id, ty, st)
    \/ \E t \in Tasks : Collect(t)
    \/ \E t \in Tasks, ty \in TypeNames : CreateObject(t, ty, FALSE)
    \/ \E t \in Tasks, id \in Ids, s \in BOOLEAN : GetObject(t, id, s)
    \/ \E t \in Tasks : GetResume(t)
    \/ \E t \in Tasks, a \in InstAddr, s2 \in BOOLEAN :
          ProcessRequest(t, a, "increment", FALSE, s2)
    \/ \E t \in Tasks : PRHandlerResume(t)
    \/ \E a \in InstAddr : Hibernate(a)
    \/ \E t \in Tasks, id \in Ids, s \in BOOLEAN : DeleteObject(t, id, s)
    \/ \E t \in Tasks : DeleteResume(t)

SpecDel == Init /\ [][NextDel]_vars

\* the event bus over the registry: objects are created or seeded (classes
\* whose initialize does not await), hibernated, given event handlers,
\* subscribed and unsubscribed, and events are published
BusSeeds == {<<"Counter", "active">>, <<"Counter", "hibernating">>, <<"Brittle", "hibernating">>}

NextBus ==
    \/ RegisterCoreObjects
    \/ \E id \in Ids, sd \in BusSeeds : StoreCreate(id, sd[1], sd[2])
    \/ \E t \in Tasks : Collect(t)
    \/ \E t \in Tasks, ty \in TypeNames : CreateObject(t, ty, FALSE)
    \/ \E a \in InstAddr : Hibernate(a)
    \/ \E a \in InstAddr, k \in HandlerKinds : RegisterEventHandler(a, k)
    \/ \E id \in Ids : Subscribe(id)
    \/ \E id \in Ids : Unsubscribe(id)
    \/ \E t \in Tasks : Publish(t)
    \/ \E t \in Tasks : PublishResume(t)

SpecBus == Init /\ [][NextBus]_vars

RouteSeeds ==
    {<<"Counter", "active">>, <<"Counter", "idle">>, <<"Counter", "hibernating">>,
     <<"Brittle", "active">>, <<"Brittle", "hibernating">>}

\* the router over the registry: objects are created or seeded (classes whose
\* initialize does not await), hibernated and terminated by their holders,
\* and requests are routed to them by id
NextRoute ==
    \/ RegisterCoreObjects
    \/ \E id \in Ids, sd \in RouteSeeds : StoreCreate(id, sd[1], sd[2])
    \/ \E t \in Tasks : Collect(t)
    \/ \E t \in Tasks, ty \in TypeNames : CreateObject(t, ty, FALSE)
    \/ \E a \in InstAddr : Hibernate(a)
    \/ \E a \in InstAddr : Terminate(a)
    \/ \E t \in Tasks, id \in Ids, act \in Actions, s2 \in BOOLEAN : RouteRequest(t, id, act, s2)
    \/ \E t \in Tasks : PRHandlerResume(t)

SpecRoute == Init /\ [][NextRoute]_vars

AdminSeeds == {<<"Counter", "active">>, <<"Counter", "hibernating">>}

\* registry maintenance: types are registered and registered again, objects
\* are created, seeded, updated and listed
NextAdmin ==
    \/ \E n \in AllTypeNames, cls \in AllTypeNames : RegisterAs(n, cls)
    \/ \E id \in Ids, sd \in AdminSeeds : StoreCreate(id, sd[1], sd[2])
    \/ \E t \in Tasks : Collect(t)
    \/ \E t \in Tasks, ty \in AllTypeNames : CreateObject(t, ty, FALSE)
    \/ \E t \in Tasks, id \in Ids, u \in Updates : UpdateObject(t, id, u)
    \/ \E t \in Tasks, ty \in AllTypeNames \cup {"none"}, st \in SeedStatuses \cup {"none"} :
          ListObjects(t, ty, st)

SpecAdmin == Init /\ [][NextAdmin]_vars

\* the persistence store on its own, called by its clients
NextStore ==
    \/ \E t \in Tasks : Collect(t)
    \/ \E t \in Tasks, id \in Ids, item \in Items : DsCreate(t, id, item)
    \/ \E t \in Tasks, id \in Ids : DsRead(t, id)
    \/ \E t \in Tasks, id \in Ids, item \in Items : DsUpdate(t, id, item)
    \/ \E t \in Tasks, id \in Ids : DsDelete(t, id)

SpecStore == Init /\ [][NextStore]_vars

\* the subscription table: callers subscribe and unsubscribe created objects
\* and other ids, and events of type "x" are published
NextSub ==
    \/ RegisterCoreObjects
    \/ \E t \in Tasks : Collect(t)
    \/ \E t \in Tasks, ty \in TypeNames : CreateObject(t, ty, FALSE)
    \/ \E t \in Tasks, id \in Ids, e \in EventTypes : SubscribeTo(t, id, e)
    \/ \E t \in Tasks, id \in Ids, e \in EventTypes : UnsubscribeFrom(t, id, e)
    \/ \E t \in Tasks, id \in Ids : UnsubscribeAll(t, id)
    \/ \E t \in Tasks : Publish(t)

SpecSub == Init /\ [][NextSub]_vars

\* the orchestration layer: the core classes are registered, the layer is
\* initialized any number of times, one call after the other, and its objects
\* are hibernated, updated and sent requests
NextLayer ==
    \/ RegisterCoreObjects
    \/ \E t \in Tasks : Collect(t)
    \/ \E t \in Tasks : InitializeOrchestrationLayer(t)
    \/ \E a \in InstAddr : Hibernate(a)
    \/ \E t \in Tasks, id \in Ids, u \in Updates : UpdateObject(t, id, u)
    \/ \E t \in Tasks, a \in InstAddr : ProcessRequest(t, a, "increment", FALSE, FALSE)

SpecLayer == Init /\ [][NextLayer]_vars

\* the API layer over the router: objects are seeded or created by the
\* router itself, hibernated by their holders, and sent requests by the API
\* router and, by id, through route_request
NextApi ==
    \/ RegisterCoreObjects
    \/ \E id \in Ids, sd \in AdminSeeds : StoreCreate(id, sd[1], sd[2])
    \/ \E t \in Tasks : Collect(t)
    \/ \E a \in InstAddr : Hibernate(a)
    \/ \E t \in Tasks : Login(t)
    \/ \E t \in Tasks, id \in Ids, act \in Actions : RouteRequest(t, id, act, FALSE)

SpecApi == Init /\ [][NextApi]_vars

TypeOK ==
    /\ object_types \in [AllTypeNames -> AllTypeNames \cup {"none"}]
    /\ \A e \in EventTypes : subscriptions[e] \subseteq Ids
    /\ \A a \in InstAddr : event_handlers[a] \in HandlerKinds
    /\ \A id \in Ids : inbox[id] \in Seq(Events) /\ Len(inbox[id]) <= MaxTasks * MaxEvents
    /\ next_event \in 0..MaxEvents
    /\ \A id \in Ids : active_objects[id] \in InstAddr \cup {0}
    /\ \A a \in DictAddr : dicts[a] \in -1..(MaxCount + MaxTasks)

\* ------------------------------------------------------------- properties
\* task t's call of op returns a result of this kind in this step
Returns(t, op, kind) ==
    /\ tasks[t].pc # "done"
    /\ tasks'[t].pc = "done"
    /\ tasks'[t].op = op
    /\ tasks'[t].result.kind = kind

\* task t calls process_request on instance a in this step
StartsRequest(t, a) ==
    /\ tasks[t].pc = "idle"
    /\ tasks'[t].op = "process_request"
    /\ tasks'[t].inst = a

InstancesOf(id) == {a \in InstAddr : insts[a] # NoInst /\ insts[a].object_id = id}

\* C1: for every object id at most one instance is ever constructed, whatever
\* the interleaving of concurrent get_object and create_object calls.
C1_SingletonPerId == \A id \in Ids : Cardinality(InstancesOf(id)) <= 1

\* C2: no lost updates: every increment request that returns its handler's
\* result has raised the object's count by exactly one, so that N requests
\* leave count = N.
C2_NoLostUpdates ==
    [][\A t \in Tasks :
          Returns(t, "process_request", "ok") =>
             LET a == tasks'[t].inst
             IN dicts'[insts'[a].state] = dicts[insts[a].state] + 1]_vars

\* C3: two process_request runs on the same object id are never both inside
\* their handler.
C3_MutualExclusion ==
    \A t \in Tasks, u \in Tasks :
       (t # u /\ tasks[t].pc = "pr_handler" /\ tasks[u].pc = "pr_handler")
          => tasks[t].id # tasks[u].id

\* C4: write-through: when process_request returns a handler's successful
\* result, the store holds a record for the object's id whose state equals
\* the object's in-memory state.
C4_WriteThrough ==
    [][\A t \in Tasks :
          Returns(t, "process_request", "ok") =>
             LET a == tasks'[t].inst
                 id == insts'[a].object_id
             IN /\ store'[id] # NoRec
                /\ dicts'[store'[id].state] = dicts'[insts'[a].state]]_vars

\* C5: when create_object returns id, the store holds an ACTIVE record for id
\* with the initial state and the cache holds the ACTIVE instance for id.
C5_CreatePersistsAndCaches ==
    [][\A t \in Tasks :
          Returns(t, "create_object", "id") =>
             LET id == tasks'[t].result.val
             IN /\ store'[id] # NoRec
                /\ store'[id].status = "active"
                /\ dicts'[store'[id].state] = 0
                /\ active_objects'[id] # 0
                /\ insts'[active_objects'[id]].status = "active"]_vars

LifecycleEdges ==
    { <<"initializing", "active">>, <<"active", "idle">>, <<"idle", "active">>,
      <<"active", "hibernating">>, <<"idle", "hibernating">>, <<"hibernating", "active">>,
      <<"active", "terminating">>, <<"idle", "terminating">>,
      <<"hibernating", "terminating">>, <<"terminating", "terminated">> }

\* C6: every change of an instance's status is an edge of the lifecycle graph.
C6_LifecycleEdgesOnly ==
    [][\A a \in InstAddr :
          (insts[a] # NoInst /\ insts'[a].status # insts[a].status)
             => <<insts[a].status, insts'[a].status>> \in LifecycleEdges]_vars

\* C7: process_request on a TERMINATING object returns the invalid-state error
\* at once and changes no instance, no state dict and no stored record.
C7_TerminatingRejected ==
    [][\A t \in Tasks, a \in InstAddr :
          (StartsRequest(t, a) /\ insts[a].status = "terminating") =>
             /\ tasks'[t].pc = "done"
             /\ tasks'[t].result.kind = "InvalidState"
             /\ ~tasks'[t].woke
             /\ UNCHANGED <<insts, dicts, store, active_objects>>]_vars

C7_Witness ==
    \E t \in Tasks :
       /\ tasks[t].pc = "done"
       /\ tasks[t].op = "process_request"
       /\ tasks[t].action \in {"increment", "fail"}
       /\ tasks[t].result.kind = "InvalidState"
       /\ insts[tasks[t].inst].status = "terminating"

\* the handler of task t's request starts in this step
HandlerStarts(t) ==
    /\ tasks[t].pc \in {"idle", "pr_init"}
    /\ tasks'[t].op = "process_request"
    /\ tasks'[t].pc \in {"pr_handler", "done"}
    /\ tasks'[t].result.kind \notin {"InvalidState", "UnknownAction"}

C9_IdleServed ==
    [][\A t \in Tasks, a \in InstAddr :
          (StartsRequest(t, a) /\ insts[a].status = "idle" /\ HasHandler(tasks'[t].action)) =>
             /\ tasks'[t].result.kind # "InvalidState"
             /\ ~tasks'[t].woke
             /\ insts'[a].status = "active"]_vars

\* C10: when the handler raises on an ACTIVE object, process_request returns
\* an error result, the status is still ACTIVE and the state held in the
\* object's stored record is what it was before the request.
C10_FailedHandlerInvisible ==
    [][\A t \in Tasks, a \in InstAddr :
          (StartsRequest(t, a) /\ insts[a].status = "active" /\ tasks'[t].action = "fail") =>
             LET id == insts[a].object_id
             IN /\ tasks'[t].pc = "done"
                /\ tasks'[t].result.kind = "HandlerError"
                /\ insts'[a].status = "active"
                /\ store' = store
                /\ store[id] # NoRec => dicts'[store'[id].state] = dicts[store[id].state]]_vars

\* delete_object(id) has returned true to task u, which still holds the value
DeletedTrue(u, id) ==
    /\ tasks[u].pc = "done"
    /\ tasks[u].op = "delete_object"
    /\ tasks[u].result.kind = "True"
    /\ tasks[u].id = id

\* task t calls registry operation op on id in this step
StartsCall(t, op, id) ==
    /\ tasks[t].pc = "idle"
    /\ tasks'[t].op = op
    /\ tasks'[t].id = id

\* C11: delete idempotence: once delete_object(id) has returned true, a
\* second delete_object(id) returns false and every get_object(id) returns
\* None.
C11_DeleteIdempotent ==
    [][\A t \in Tasks, u \in Tasks, id \in Ids :
          DeletedTrue(u, id) =>
             /\ StartsCall(t, "delete_object", id) =>
                   (tasks'[t].pc = "done" /\ tasks'[t].result.kind = "False")
             /\ StartsCall(t, "get_object", id) =>
                   (tasks'[t].pc = "done" /\ tasks'[t].result.kind = "None")]_vars

\* a process_request on object id has started its handler and is suspended in it
InFlight(t, id) == tasks[t].pc = "pr_handler" /\ tasks[t].id = id

\* C12: delete_object does not return true for an object while a request on
\* it is suspended in its handler, and no handler of an object writes state
\* once delete_object has returned true for it.
C12_DeleteWaitsForRequests ==
    [][\A t \in Tasks, u \in Tasks, id \in Ids :
          /\ (Returns(u, "delete_object", "True") /\ tasks'[u].id = id) => ~InFlight(t, id)
          /\ (DeletedTrue(u, id) /\ InFlight(t, id) /\ tasks'[t].pc = "done") =>
                dicts' = dicts]_vars

\* get_object(id) by task t misses the cache and finds a stored record of a
\* registered type in this step
Hydrates(t, id) ==
    /\ StartsCall(t, "get_object", id)
    /\ active_objects[id] = 0
    /\ store[id] # NoRec
    /\ KnownType(store[id].object_type)

\* C13: a get_object that hydrates builds an instance on the stored state,
\* with the stored status; a stored HIBERNATING status is woken to ACTIVE
\* before the instance is returned; the returned instance is the one the
\* cache holds when the call returns.
C13_HydrationFaithful ==
    [][\A t \in Tasks, id \in Ids :
          LET a == tasks'[t].inst
          IN /\ Hydrates(t, id) =>
                   /\ insts'[a].state = store[id].state
                   /\ dicts'[insts'[a].state] = dicts[store[id].state]
                   /\ tasks'[t].pc = "done" =>
                         /\ tasks'[t].result = [kind |-> "instance", val |-> a]
                         /\ insts'[a].status =
                              IF store[id].status = "hibernating" THEN "active"
                              ELSE store[id].status
                         /\ active_objects'[id] = a
                   /\ tasks'[t].pc # "done" => store[id].status = "hibernating"
             /\ (tasks[t].pc = "get_init" /\ tasks[t].id = id /\ tasks'[t].pc = "done") =>
                   /\ tasks'[t].result = [kind |-> "instance", val |-> a]
                   /\ insts'[a].state = insts[a].state
                   /\ dicts'[insts'[a].state] = dicts[insts[a].state]
                   /\ insts'[a].status = "active"
                   /\ active_objects'[id] = a]_vars

\* a get_object has returned an ACTIVE instance that shares its state dict
\* with the stored record (that is, one built by hydration) and is cached
C13_Witness ==
    \E t \in Tasks :
       LET a == tasks[t].inst
           id == tasks[t].id
       IN /\ tasks[t].pc = "done"
          /\ tasks[t].op = "get_object"
          /\ tasks[t].result.kind = "instance"
          /\ store[id] # NoRec
          /\ insts[a].state = store[id].state
          /\ insts[a].status = "active"
          /\ active_objects[id] = a
          /\ Cardinality(InstancesOf(id)) = 1

\* event e has been handed to handle_event of an instance of object id,
\* according to delivery log ib
Delivered(ib, e, id) == \E i \in 1..Len(ib[id]) : ib[id][i] = e

\* get_object(id) would return an instance
Resolvable(id) == Resolve(Heap, id).kind \in {"hit", "fresh", "wake"}

PublishReturns(t) ==
    /\ tasks[t].pc # "done"
    /\ tasks'[t].op = "publish"
    /\ tasks'[t].pc = "done"

\* task t's publish hands its event to handle_event of object id in this step
Delivers(t, id) ==
    /\ tasks'[t].op = "publish"
    /\ tasks'[t] # tasks[t]
    /\ ~Delivered(inbox, fanout'[t].event, id)
    /\ Delivered(inbox', fanout'[t].event, id)

\* C15: a publish delivers to exactly the subscriber set recorded when it
\* was called: it does not fail, and the subscribers its loop has gone through
\* when it returns are that set, whatever subscribe and unsubscribe calls ran
\* while it was suspended in a handler.
C15_SnapshotFanout ==
    [][\A t \in Tasks :
          PublishReturns(t) =>
             /\ tasks'[t].result.kind = "None"
             /\ fanout'[t].visited = fanout'[t].orig]_vars

\* C16: per-subscriber FIFO: when an event is handed to an object that was
\* subscribed when this publish and a later publish were called (and still
\* is), the later publish's event has not been handed to it yet.
C16_PerSubscriberFifo ==
    [][\A t \in Tasks, u \in Tasks, id \in Ids :
          (/\ Delivers(t, id)
           /\ fanout[t].event # 0
           /\ fanout[u].event > fanout[t].event
           /\ id \in fanout[t].orig \cap fanout[u].orig
           /\ id \in subscriptions["x"])
             => ~Delivered(inbox, fanout[u].event, id)]_vars

\* C17: no replay, at most once: an event is handed to an object only if the
\* object was subscribed when the event was published, and no event is
\* handed to an object twice.
C17_NoReplayAtMostOnce ==
    [][\A t \in Tasks, id \in Ids :
          /\ Delivers(t, id) => id \in fanout'[t].orig
          /\ \A i \in 1..Len(inbox'[id]), j \in 1..Len(inbox'[id]) :
                inbox'[id][i] = inbox'[id][j] => i = j]_vars

\* object id is HIBERNATING: its cached instance is, or it is not cached and
\* its stored record is
IsHibernating(id) ==
    IF active_objects[id] # 0
    THEN insts[active_objects[id]].status = "hibernating"
    ELSE store[id] # NoRec /\ store[id].status = "hibernating"

\* C18: when publish hands an event to a HIBERNATING object, cached or not,
\* the object has been woken: the instance whose handle_event ran is ACTIVE.
C18_WakeBeforeEvent ==
    [][\A t \in Tasks, id \in Ids :
          (Delivers(t, id) /\ IsHibernating(id)) =>
             /\ active_objects'[id] # 0
             /\ insts'[active_objects'[id]].status = "active"]_vars

\* what process_request answers for an action on an instance of class cls
\* found in this status: the documented outcome of lines 104-124
ExpectedKind(status, cls, action) ==
    IF status = "hibernating" /\ cls \in BrittleTypes THEN "Exception"
    ELSE IF status \notin {"active", "hibernating"} THEN "InvalidState"
    ELSE IF action = "increment" THEN "ok"
    ELSE IF action = "fail" THEN "HandlerError"
    ELSE "UnknownAction"

\* C19: route_request on an id get_object does not find returns the
\* not-found error and changes neither cache nor store nor any object; on an
\* id get_object finds, it returns what process_request of that instance
\* returns for the action in the status the instance was found in.
C19_RouteForwards ==
    [][\A t \in Tasks, id \in Ids :
          LET r == Resolve(Heap, id)
              a == r.inst
              st == IF r.kind = "wake" THEN "active" ELSE r.H.i[a].status
              want == ExpectedKind(st, r.H.i[a].cls, tasks'[t].action)
          IN /\ (StartsCall(t, "route_request", id) /\ r.kind = "none") =>
                   /\ tasks'[t].pc = "done"
                   /\ tasks'[t].result.kind = "NotFound"
                   /\ UNCHANGED <<active_objects, store, insts, dicts>>
             /\ (StartsCall(t, "route_request", id) /\ r.kind \in {"hit", "fresh", "wake"}) =>
                   /\ tasks'[t].inst = a
                   /\ active_objects'[id] = a
                   /\ tasks'[t].pc = "done" =>
                         /\ tasks'[t].result.kind = want
                         /\ want = "ok" => tasks'[t].result.val = dicts[r.H.i[a].state] + 1
                   /\ tasks'[t].pc # "done" => want = "ok"
             /\ (tasks[t].pc = "pr_handler" /\ tasks[t].op = "route_request"
                    /\ tasks'[t].pc = "done") =>
                   tasks'[t].result = [kind |-> "ok", val |-> tasks[t].c + 1]]_vars

\* one route_request has returned the not-found error and another, to a
\* HIBERNATING object it woke, the handler's result
C19_Witness ==
    \E t \in Tasks, u \in Tasks :
       /\ tasks[t].pc = "done"
       /\ tasks[t].op = "route_request"
       /\ tasks[t].result.kind = "NotFound"
       /\ tasks[u].pc = "done"
       /\ tasks[u].op = "route_request"
       /\ tasks[u].woke
       /\ tasks[u].result = [kind |-> "ok", val |-> dicts[insts[tasks[u].inst].state]]

\* C20: route_request never lets an exception out: whatever the id, the
\* action, the object's status and the outcome of its handler or of its
\* initialize, the caller gets a result.
C20_RouteNeverRaises ==
    [][\A t \in Tasks : ~Returns(t, "route_request", "Exception")]_vars

\* C21: update_object on an object get_object finds leaves the instance's
\* state as the previous state overridden on the keys of the updates, returns
\* the instance, and the stored record's state is then that merged state; on
\* an id get_object does not find it returns None and changes nothing.
C21_UpdateMergesAndPersists ==
    [][\A t \in Tasks, id \in Ids :
          LET r == Resolve(Heap, id)
              a == r.inst
              merged == Merge(dicts[r.H.i[a].state], tasks'[t].updates)
          IN /\ (StartsCall(t, "update_object", id) /\ r.kind = "none") =>
                   /\ tasks'[t].pc = "done"
                   /\ tasks'[t].result.kind = "None"
                   /\ UNCHANGED <<active_objects, store, insts, dicts>>
             /\ (StartsCall(t, "update_object", id) /\ r.kind \in {"hit", "fresh", "wake"}) =>
                   /\ tasks'[t].pc = "done"
                   /\ tasks'[t].result = [kind |-> "instance", val |-> a]
                   /\ dicts'[insts'[a].state] = merged
                   /\ store'[id] # NoRec
                   /\ dicts'[store'[id].state] = merged]_vars

\* C22: a type name that is registered keeps the class it was registered
\* with: registering it again with the same class changes nothing, and
\* registering it with another class does not replace the mapping.
C22_RegistrationKept ==
    [][\A n \in AllTypeNames :
          KnownType(n) => object_types'[n] = object_types[n]]_vars

\* C23: create_object with a type name that has no entry in the type
\* registry fails with the unknown-type error and changes neither the type
\* registry nor the cache nor the store; no instance is built and no id is
\* used up.
C23_UnknownTypeRejected ==
    [][\A t \in Tasks :
          (/\ tasks[t].pc = "idle"
           /\ tasks'[t].op = "create_object"
           /\ object_types[tasks'[t].type] = "none") =>
             /\ tasks'[t].pc = "done"
             /\ tasks'[t].result.kind = "UnknownType"
             /\ UNCHANGED <<object_types, active_objects, store, insts, dicts, next_id>>]_vars

\* a create_object of an unregistered type name has failed while another
\* type name is registered
C23_Witness ==
    \E t \in Tasks, n \in AllTypeNames :
       /\ tasks[t].pc = "done"
       /\ tasks[t].op = "create_object"
       /\ tasks[t].result.kind = "UnknownType"
       /\ object_types[tasks[t].type] = "none"
       /\ object_types[n] # "none"

\* C24: the store's contract.  create(item) and an update of an id the store
\* holds make read(id) return that item; read returns the item held for the
\* id, or None, and changes nothing; update of an id the store does not hold
\* returns None and leaves the store as it is; delete removes the id and
\* returns true exactly when the id was held; what the store holds for an id
\* changes only in a create, update or delete of that id.
C24_StoreContract ==
    [][\A t \in Tasks, id \in Ids :
          LET f == tasks'[t]
              others == \A o \in Ids \ {id} : store'[o] = store[o]
          IN /\ StartsCall(t, "store.create", id) =>
                   (store'[id] = f.item /\ f.result.kind = "item" /\ others)
             /\ (StartsCall(t, "store.update", id) /\ store[id] # NoRec) =>
                   (store'[id] = f.item /\ f.result.kind = "item" /\ others)
             /\ (StartsCall(t, "store.update", id) /\ store[id] = NoRec) =>
                   (store' = store /\ f.result.kind = "None")
             /\ StartsCall(t, "store.read", id) =>
                   /\ store' = store
                   /\ f.item = store[id]
                   /\ f.result.kind = IF store[id] = NoRec THEN "None" ELSE "item"
             /\ StartsCall(t, "store.delete", id) =>
                   /\ store'[id] = NoRec
                   /\ others
                   /\ f.result.kind = IF store[id] # NoRec THEN "True" ELSE "False"
             /\ store'[id] # store[id] =>
                   \E u \in Tasks :
                      \/ StartsCall(u, "store.create", id)
                      \/ StartsCall(u, "store.update", id)
                      \/ StartsCall(u, "store.delete", id)]_vars

\* an update of an id the store does not hold has returned None, and a read
\* of an id the store holds has returned the item held
C24_Witness ==
    \E t \in Tasks, u \in Tasks :
       /\ tasks[t].pc = "done"
       /\ tasks[t].op = "store.update"
       /\ tasks[t].result.kind = "None"
       /\ store[tasks[t].id] = NoRec
       /\ tasks[u].pc = "done"
       /\ tasks[u].op = "store.read"
       /\ tasks[u].result.kind = "item"
       /\ tasks[u].item = store[tasks[u].id]

\* how many times event e has been handed to object id
TimesDelivered(ib, e, id) == Cardinality({i \in 1..Len(ib[id]) : ib[id][i] = e})

C27_DeletedStaysGone ==
    \A u \in Tasks, id \in Ids :
       DeletedTrue(u, id) => (active_objects[id] = 0 /\ store[id] = NoRec)

\* the ids that have a cached instance or a stored record of type ty
SystemObjects(c, st, i, ty) ==
    {id \in Ids : \/ c[id] # 0 /\ i[c[id]].cls = ty
                  \/ st[id] # NoRec /\ st[id].object_type = ty}

\* C28: initialize_orchestration_layer is idempotent: whenever a call of it
\* returns, there is exactly one system object of the system type, however
\* many calls went before.
C28_LayerIdempotent ==
    [][\A t \in Tasks :
          Returns(t, "initialize_orchestration_layer", "None") =>
             Cardinality(SystemObjects(active_objects', store', insts', SystemType)) = 1]_vars

\* register_event_handler has been called on the cached, ACTIVE instance of
\* object id
HasRegisteredHandler(id) ==
    /\ active_objects[id] # 0
    /\ insts[active_objects[id]].status = "active"
    /\ event_handlers[active_objects[id]] # "none"

\* C29: register_event_handler subscribes the object: a publish that is
\* called after a handler was registered on an object held by the registry,
\* and runs to its end, has handed the event to that object, with no
\* EventBus.subscribe call for it.
C29_RegisterSubscribes ==
    [][\A t \in Tasks, id \in Ids :
          (/\ tasks[t].pc = "idle"
           /\ tasks'[t].op = "publish"
           /\ tasks'[t].pc = "done"
           /\ HasRegisteredHandler(id)) =>
             Delivered(inbox', fanout'[t].event, id)]_vars

\* C30: a request an API router sends to an object that is ACTIVE when
\* process_request dispatches it returns the result of the handler method the
\* router names, not an unknown-action error.
C30_ApiRequestReachesHandler ==
    [][\A t \in Tasks :
          (/\ tasks[t].pc = "idle"
           /\ tasks'[t].op = "login"
           /\ tasks'[t].inst # 0
           /\ insts'[tasks'[t].inst].status = "active") =>
             /\ tasks'[t].result.kind # "UnknownAction"
             /\ tasks'[t].result.kind = "ok"]_vars

====
